---- MODULE Spec2Model ----
(***************************************************************************)
(* A model of ollama/_utils.py: the annotation-to-JSON-type resolver       *)
(* (_get_json_type, _is_optional_type), the docstring-driven tool compiler *)
(* (convert_function_to_tool) and the tool list normaliser (process_tools).*)
(*                                                                         *)
(* Text is modelled as a sequence of one-character strings, except that a  *)
(* docstring is a sequence of tokens, each token standing for a fixed      *)
(* piece of text; the docstring is the concatenation of its tokens.        *)
(***************************************************************************)
EXTENDS Integers, Sequences, FiniteSets, TLC

VARIABLES pc, op, in_type, in_func, in_tools, out_type, out_optional, out_tool, out_tools

vars == <<pc, op, in_type, in_func, in_tools, out_type, out_optional, out_tool, out_tools>>

(***************************************************************************)
(* Bounds of the model.                                                    *)
(***************************************************************************)
MaxUnion == 3
MaxLines == 3
MaxParams == 2
MaxTools == 3

(***************************************************************************)
(* Sequence helpers.                                                       *)
(***************************************************************************)
Range(s) == {s[i] : i \in DOMAIN s}

IsInjective(s) == \A i, j \in DOMAIN s : s[i] = s[j] => i = j

SeqsUpTo(S, n) == UNION {[1..k -> S] : k \in 0..n}

(***************************************************************************)
(* str.lower() on the letters the model uses.                              *)
(***************************************************************************)
UpperCase == <<"A","B","C","D","E","F","G","H","I","J","K","L","M",
               "N","O","P","Q","R","S","T","U","V","W","X","Y","Z">>
LowerCase == <<"a","b","c","d","e","f","g","h","i","j","k","l","m",
               "n","o","p","q","r","s","t","u","v","w","x","y","z">>

LowerChar(c) ==
  IF \E i \in DOMAIN UpperCase : UpperCase[i] = c
  THEN LowerCase[CHOOSE i \in DOMAIN UpperCase : UpperCase[i] = c]
  ELSE c

lower(s) == [i \in DOMAIN s |-> LowerChar(s[i])]

(***************************************************************************)
(* Annotation values.  Every annotation is a record of one shape:          *)
(*   kind    "class" (a type object), "None" (the value None), "str",      *)
(*           "union" (typing.Union / X | Y), "alias" (a typing or generic  *)
(*           alias), "fwd" (typing.ForwardRef)                             *)
(*   key     the object's identity, as TYPE_MAP keys objects               *)
(*   hasName, name   hasattr(x, '__name__') and x.__name__                 *)
(*   chars   the text of a str annotation or of a ForwardRef               *)
(*   origin  typing.get_origin(x): has, its identity, isinstance(o, type), *)
(*           and which of the two issubclass tests of the code it passes   *)
(*   args    typing.get_args(x) of a union                                 *)
(***************************************************************************)
NoOrigin == [has |-> FALSE, key |-> "", isType |-> FALSE, sub |-> "none"]

Origin(key, isType, sub) == [has |-> TRUE, key |-> key, isType |-> isType, sub |-> sub]

Class(key, name) ==
  [kind |-> "class", key |-> key, hasName |-> TRUE, name |-> name,
   chars |-> <<>>, origin |-> NoOrigin, args |-> <<>>]

NoneValue ==
  [kind |-> "None", key |-> "None", hasName |-> FALSE, name |-> <<>>,
   chars |-> <<>>, origin |-> NoOrigin, args |-> <<>>]

Str(chars) ==
  [kind |-> "str", key |-> "", hasName |-> FALSE, name |-> <<>>,
   chars |-> chars, origin |-> NoOrigin, args |-> <<>>]

ForwardRef(chars) ==
  [kind |-> "fwd", key |-> "", hasName |-> FALSE, name |-> <<>>,
   chars |-> chars, origin |-> NoOrigin, args |-> <<>>]

Alias(key, name, origin) ==
  [kind |-> "alias", key |-> key, hasName |-> TRUE, name |-> name,
   chars |-> <<>>, origin |-> origin, args |-> <<>>]

UnionOf(args) ==
  [kind |-> "union", key |-> "", hasName |-> FALSE, name |-> <<>>,
   chars |-> <<>>, origin |-> Origin("typing.Union", FALSE, "none"), args |-> args]

\* Runtime types.
T_int == Class("int", <<"i","n","t">>)
T_str == Class("str", <<"s","t","r">>)
T_float == Class("float", <<"f","l","o","a","t">>)
T_bool == Class("bool", <<"b","o","o","l">>)
T_NoneType == Class("NoneType", <<"N","o","n","e","T","y","p","e">>)
T_list == Class("list", <<"l","i","s","t">>)
T_tuple == Class("tuple", <<"t","u","p","l","e">>)
T_set == Class("set", <<"s","e","t">>)
T_dict == Class("dict", <<"d","i","c","t">>)
T_Any == Class("typing.Any", <<"A","n","y">>)
\* User classes: Foo names nothing in TYPE_MAP; Int lowercases to a key of it.
T_Foo == Class("Foo", <<"F","o","o">>)
T_Int == Class("Int", <<"I","n","t">>)
\* Aliases: typing.List, List[int], Dict[str, int], typing.Sequence[int],
\* typing.Mapping, collections.deque[int], Callable[[int], str], Literal['a'].
A_List == Alias("typing.List", <<"L","i","s","t">>, Origin("list", TRUE, "array"))
A_ListInt == Alias("List[int]", <<"L","i","s","t">>, Origin("list", TRUE, "array"))
A_DictStrInt == Alias("Dict[str,int]", <<"D","i","c","t">>, Origin("dict", TRUE, "object"))
A_SequenceInt == Alias("Sequence[int]", <<"S","e","q","u","e","n","c","e">>,
                       Origin("abc.Sequence", TRUE, "array"))
A_Mapping == Alias("typing.Mapping", <<"M","a","p","p","i","n","g">>,
                   Origin("abc.Mapping", TRUE, "object"))
A_DequeInt == Alias("deque[int]", <<"d","e","q","u","e">>, Origin("deque", TRUE, "array"))
A_Callable == Alias("Callable[[int],str]", <<"C","a","l","l","a","b","l","e">>,
                    Origin("abc.Callable", TRUE, "none"))
A_Literal == Alias("Literal['a']", <<"L","i","t","e","r","a","l">>,
                   Origin("typing.Literal", FALSE, "none"))

(***************************************************************************)
(* TYPE_MAP: obj holds the entries keyed by a type object, str the entries *)
(* keyed by a string.                                                      *)
(***************************************************************************)
TYPE_MAP ==
  [obj |->
     ( "int" :> "integer" @@ "str" :> "string" @@ "float" :> "number"
    @@ "bool" :> "boolean" @@ "NoneType" :> "null"
    @@ "list" :> "array" @@ "typing.List" :> "array" @@ "abc.Sequence" :> "array"
    @@ "tuple" :> "array" @@ "set" :> "array" @@ "abc.Set" :> "array"
    @@ "typing.Set" :> "array"
    @@ "dict" :> "object" @@ "typing.Dict" :> "object" @@ "typing.Mapping" :> "object"
    @@ "typing.Any" :> "string" ),
   str |->
     ( <<"i","n","t">> :> "integer" @@ <<"s","t","r">> :> "string"
    @@ <<"f","l","o","a","t">> :> "number" @@ <<"b","o","o","l">> :> "boolean"
    @@ <<"N","o","n","e">> :> "null"
    @@ <<"l","i","s","t">> :> "array" @@ <<"L","i","s","t">> :> "array"
    @@ <<"S","e","q","u","e","n","c","e">> :> "array"
    @@ <<"t","u","p","l","e">> :> "array" @@ <<"s","e","t">> :> "array"
    @@ <<"S","e","t">> :> "array"
    @@ <<"d","i","c","t">> :> "object" @@ <<"D","i","c","t">> :> "object"
    @@ <<"M","a","p","p","i","n","g">> :> "object"
    @@ <<"A","n","y">> :> "string" )]

(***************************************************************************)
(* Results of _get_json_type: a str, a list of str, or the ValueError of   *)
(* line 88 naming the annotation; NullResult is Python's None.             *)
(***************************************************************************)
JsonStr(k) == [tag |-> "str", types |-> <<k>>, bad |-> NoneValue]
JsonList(ks) == [tag |-> "list", types |-> ks, bad |-> NoneValue]
UnmappableType(t) == [tag |-> "ValueError", types |-> <<>>, bad |-> t]
NullResult == [tag |-> "None", types |-> <<>>, bad |-> NoneValue]

\* origin is type(int | str) or origin is Union
is_union(python_type) ==
  python_type.origin.has /\ python_type.origin.key = "typing.Union"

\* arg in (None, type(None))
is_none_arg(arg) == arg = NoneValue \/ arg = T_NoneType

\* A resolver that keeps the absence members of a union.
non_none_args_keeping_none(args) == args

non_none_args(args) == SelectSeq(args, LAMBDA arg : ~is_none_arg(arg))

\* The key looked up in TYPE_MAP: lines 75-83.
type_key(python_type) ==
  LET first == IF python_type.kind = "str"
               THEN [str |-> TRUE, k |-> "", s |-> lower(python_type.chars)]
               ELSE [str |-> FALSE, k |-> python_type.key, s |-> <<>>]
      found == IF first.str THEN first.s \in DOMAIN TYPE_MAP.str
               ELSE first.k \in DOMAIN TYPE_MAP.obj
  IN IF ~found /\ python_type.hasName
     THEN [str |-> TRUE, k |-> "", s |-> lower(python_type.name)]
     ELSE first

lookup(python_type) ==
  LET key == type_key(python_type)
  IN IF key.str /\ key.s \in DOMAIN TYPE_MAP.str THEN JsonStr(TYPE_MAP.str[key.s])
     ELSE IF ~key.str /\ key.k \in DOMAIN TYPE_MAP.obj THEN JsonStr(TYPE_MAP.obj[key.k])
     ELSE UnmappableType(python_type)

\* [_get_json_type(arg) for arg in non_none_args]: the first failing member
\* raises; union members are never unions themselves, so each is one kind.
list_of(results) ==
  IF \E i \in DOMAIN results : results[i].tag = "ValueError"
  THEN results[CHOOSE i \in DOMAIN results :
                 /\ results[i].tag = "ValueError"
                 /\ \A j \in 1..(i-1) : results[j].tag # "ValueError"]
  ELSE JsonList([i \in DOMAIN results |-> results[i].types[1]])

RECURSIVE _get_json_type(_)
_get_json_type(python_type) ==
  IF is_union(python_type)
  THEN LET nn == non_none_args(python_type.args)
       IN IF Len(nn) > 0
          THEN IF Len(nn) = 1
               THEN _get_json_type(nn[1])
               ELSE list_of([i \in DOMAIN nn |-> _get_json_type(nn[i])])
          ELSE JsonStr("null")
  ELSE IF python_type.origin.has /\ python_type.origin.key \in DOMAIN TYPE_MAP.obj
  THEN JsonStr(TYPE_MAP.obj[python_type.origin.key])
  ELSE IF python_type.origin.has /\ python_type.origin.isType
          /\ python_type.origin.sub = "array"
  THEN JsonStr("array")
  ELSE IF python_type.origin.has /\ python_type.origin.isType
          /\ python_type.origin.sub = "object"
  THEN JsonStr("object")
  ELSE lookup(python_type)

_is_optional_type(python_type) ==
  IF is_union(python_type)
  THEN \E i \in DOMAIN python_type.args : is_none_arg(python_type.args[i])
  ELSE FALSE

(***************************************************************************)
(* Docstring text: a sequence of tokens.  "Args:" and "Returns:" are the   *)
(* two section markers, "\n" the line break, " " a blank, ":" "(" ")" the  *)
(* punctuation the code looks at, "a" "b" "c" parameter names and "w" "v"  *)
(* words.  No concatenation of tokens spells a marker across a token       *)
(* boundary, so searching for a marker token is searching for its text.    *)
(***************************************************************************)
Whitespace == {" ", "\n"}

\* sub in s, for a one-token sub
contains(s, sub) == \E i \in DOMAIN s : s[i] = sub

find(s, sub) == CHOOSE i \in DOMAIN s : s[i] = sub /\ \A j \in 1..(i-1) : s[j] # sub

\* s.split(sep)
RECURSIVE split(_, _)
split(s, sep) ==
  IF ~contains(s, sep) THEN <<s>>
  ELSE LET i == find(s, sep)
       IN <<SubSeq(s, 1, i-1)>> \o split(SubSeq(s, i+1, Len(s)), sep)

\* s.split(sep, 1)
split1(s, sep) ==
  IF ~contains(s, sep) THEN <<s>>
  ELSE LET i == find(s, sep)
       IN <<SubSeq(s, 1, i-1), SubSeq(s, i+1, Len(s))>>

\* s.strip()
RECURSIVE lstrip(_)
lstrip(s) == IF s # <<>> /\ Head(s) \in Whitespace THEN lstrip(Tail(s)) ELSE s

RECURSIVE rstrip(_)
rstrip(s) ==
  IF s # <<>> /\ s[Len(s)] \in Whitespace THEN rstrip(SubSeq(s, 1, Len(s)-1)) ELSE s

strip(s) == rstrip(lstrip(s))

startswith(s, prefix) == Len(s) >= Len(prefix) /\ SubSeq(s, 1, Len(prefix)) = prefix

\* sep.join(parts)
RECURSIVE join(_, _)
join(sep, parts) ==
  IF parts = <<>> THEN <<>>
  ELSE IF Len(parts) = 1 THEN parts[1]
  ELSE parts[1] \o <<sep>> \o join(sep, Tail(parts))

stripped_lines(text) == LET ls == split(text, "\n") IN [i \in DOMAIN ls |-> strip(ls[i])]

(***************************************************************************)
(* convert_function_to_tool.  A callable is [name, doc, annotations]: doc  *)
(* is [none, text] (func.__doc__), annotations the items of                *)
(* func.__annotations__ in order, each [name, type].                       *)
(***************************************************************************)
NoTool ==
  [type |-> "", name |-> "", description |-> <<>>,
   parameters |-> [type |-> "", properties |-> <<>>, required |-> <<>>],
   return_type |-> NullResult]

\* An outcome: exc = "" is a return of tool_dict, anything else the exception
\* raised, with its message (msg), the name in the message (who) and, for
\* line 88, the annotation in the message (bad).
Returned(tool_dict) ==
  [exc |-> "", msg |-> "", who |-> "", bad |-> NoneValue, tool_dict |-> tool_dict]

Raised(exc, msg, who, bad) ==
  [exc |-> exc, msg |-> msg, who |-> who, bad |-> bad, tool_dict |-> NoTool]

\* Lines 105-113: the lines before the first line that starts with 'Args:'.
description_lines(doc_string) ==
  LET ls == stripped_lines(doc_string)
      stop == IF \E i \in DOMAIN ls : startswith(ls[i], <<"Args:">>)
              THEN CHOOSE i \in DOMAIN ls :
                     /\ startswith(ls[i], <<"Args:">>)
                     /\ \A j \in 1..(i-1) : ~startswith(ls[j], <<"Args:">>)
              ELSE Len(ls) + 1
  IN SelectSeq(SubSeq(ls, 1, stop - 1), LAMBDA line : line # <<>>)

description_of(doc_string) == strip(join(" ", description_lines(doc_string)))

\* Lines 119-121.
args_section_of(doc_string) ==
  LET after == split(doc_string, "Args:")[2]
  IN IF contains(after, "Returns:") THEN split(after, "Returns:")[1] ELSE after

\* A matcher that knows only the '<name>:' format.
line_matches_colon_only(line, param_name) == startswith(line, <<param_name, ":">>)

\* Line 134.
line_matches(line, param_name) ==
  \/ startswith(line, <<param_name, ":">>)
  \/ startswith(line, <<param_name, " ">>)
  \/ startswith(line, <<param_name, "(">>)

\* Lines 130-136: tag "None" when no line matches, "IndexError" when the
\* first matching line has no colon, else "str" with the text found.
param_desc_of(args_section, param_name) ==
  LET ls == stripped_lines(args_section)
  IN IF \E i \in DOMAIN ls : line_matches(ls[i], param_name)
     THEN LET i == CHOOSE k \in DOMAIN ls :
                     /\ line_matches(ls[k], param_name)
                     /\ \A j \in 1..(k-1) : ~line_matches(ls[j], param_name)
              parts == split1(ls[i], ":")
          IN IF Len(parts) < 2 THEN [tag |-> "IndexError", text |-> <<>>]
             ELSE [tag |-> "str", text |-> strip(parts[2])]
     ELSE [tag |-> "None", text |-> <<>>]

\* A check that tests for None only and lets the empty description through.
not_param_desc_none_only(param_desc) == param_desc.tag = "None"

\* Line 138: not param_desc.
not_param_desc(param_desc) == param_desc.tag = "None" \/ param_desc.text = <<>>

\* Lines 141-144.
add_property(properties, param_name, json_type, param_desc) ==
  Append(properties, [name |-> param_name, type |-> json_type, description |-> param_desc])

\* A compiler that requires every parameter.
add_required_always(required, param_name, param_type) == Append(required, param_name)

\* Lines 147-148.
add_required(required, param_name, param_type) ==
  IF ~_is_optional_type(param_type) THEN Append(required, param_name) ELSE required

\* Lines 126-148: the loop over func.__annotations__.items(), from item i on,
\* with the parameters built so far; the outcome is the parameters or the
\* exception that ends the loop.
RECURSIVE build_parameters(_, _, _, _)
build_parameters(items, i, args_section, parameters) ==
  IF i > Len(items) THEN [exc |-> "", msg |-> "", who |-> "", bad |-> NoneValue,
                          parameters |-> parameters]
  ELSE LET param_name == items[i].name
           param_type == items[i].type
           param_desc == param_desc_of(args_section, param_name)
           json_type == _get_json_type(param_type)
           fail(exc, msg, who, bad) ==
             [exc |-> exc, msg |-> msg, who |-> who, bad |-> bad,
              parameters |-> parameters]
       IN IF param_name = "return"
          THEN build_parameters(items, i + 1, args_section, parameters)
          ELSE IF param_desc.tag = "IndexError"
          THEN fail("IndexError", "list index out of range", "", NoneValue)
          ELSE IF not_param_desc(param_desc)
          THEN fail("ValueError", "must have a description in the Args section",
                    param_name, NoneValue)
          ELSE IF json_type.tag = "ValueError"
          THEN fail("ValueError", "Could not map Python type", "", json_type.bad)
          ELSE build_parameters(items, i + 1, args_section,
                 [parameters EXCEPT
                    !.properties = add_property(@, param_name, json_type, param_desc.text),
                    !.required = add_required(@, param_name, param_type)])

has_return(annotations) == \E i \in DOMAIN annotations : annotations[i].name = "return"

return_annotation(annotations) ==
  annotations[CHOOSE i \in DOMAIN annotations : annotations[i].name = "return"].type

\* Lines 160-161: the outcome of resolving the return annotation.
return_type_of(annotations) ==
  IF has_return(annotations) /\ return_annotation(annotations) # NoneValue
  THEN _get_json_type(return_annotation(annotations))
  ELSE NullResult

SchemaKind == {"integer", "string", "number", "boolean", "null", "array", "object"}

\* Tool.model_validate: the structural validator of ollama._types, which
\* accepts the descriptor shape and rejects anything else.
Tool_model_validate(d) ==
  IF /\ d.type = "function"
     /\ d.parameters.type = "object"
     /\ \A i \in DOMAIN d.parameters.properties :
          /\ d.parameters.properties[i].type.tag \in {"str", "list"}
          /\ Range(d.parameters.properties[i].type.types) \subseteq SchemaKind
     /\ d.return_type.tag \in {"None", "str"}
     /\ Range(d.return_type.types) \subseteq SchemaKind
  THEN Returned(d)
  ELSE [Raised("ValidationError", "validation error for Tool", "", NoneValue)
          EXCEPT !.tool_dict = d]

convert_function_to_tool(f) ==
  IF f.doc.none \/ f.doc.text = <<>>
  THEN Raised("ValueError", "must have a docstring in Google format", f.name, NoneValue)
  ELSE IF ~contains(f.doc.text, "Args:")
  THEN Raised("ValueError", "docstring must have an Args section in Google format",
              f.name, NoneValue)
  ELSE LET description == description_of(f.doc.text)
           args_section == args_section_of(f.doc.text)
           built == build_parameters(f.annotations, 1, args_section,
                      [type |-> "object", properties |-> <<>>, required |-> <<>>])
           return_type == return_type_of(f.annotations)
           tool_dict == [type |-> "function", name |-> f.name,
                         description |-> description,
                         parameters |-> built.parameters,
                         return_type |-> return_type]
       IN IF built.exc # "" THEN Raised(built.exc, built.msg, built.who, built.bad)
          ELSE IF return_type.tag = "ValueError"
          THEN Raised("ValueError", "Could not map Python type", "", return_type.bad)
          ELSE Tool_model_validate(tool_dict)

(***************************************************************************)
(* process_tools.  tools is [none, items]; an item is [callable, f, data]: *)
(* a callable f, or raw descriptor data (a mapping or a Tool).             *)
(***************************************************************************)
\* Lines 170-177: the loop from item i on; the first exception ends it.
RECURSIVE process_from(_, _, _)
process_from(items, i, processed_tools) ==
  IF i > Len(items) THEN [exc |-> "", at |-> 0, value |-> processed_tools]
  ELSE LET r == IF items[i].callable
                THEN convert_function_to_tool(items[i].f)
                ELSE Tool_model_validate(items[i].data)
       IN IF r.exc # "" THEN [exc |-> r.exc, at |-> i, value |-> <<>>]
          ELSE process_from(items, i + 1, Append(processed_tools, r.tool_dict))

\* A normaliser that starts its loop one item late.
process_tools_skipping_first(t) ==
  IF t.none \/ t.items = <<>> THEN [exc |-> "", at |-> 0, value |-> <<>>]
  ELSE process_from(t.items, 2, <<>>)

process_tools(t) ==
  IF t.none \/ t.items = <<>> THEN [exc |-> "", at |-> 0, value |-> <<>>]
  ELSE process_from(t.items, 1, <<>>)

(***************************************************************************)
(* The inputs the model draws.                                             *)
(***************************************************************************)
Optional(t) == UnionOf(<<t, T_NoneType>>)

\* typing.Union deduplicates and flattens its members and turns None into
\* NoneType and a string into a ForwardRef: the members of a union are distinct
\* and none is a union, the value None or a str.
UnionMembers == {T_int, T_str, T_NoneType, T_Foo, A_ListInt, ForwardRef(<<"i","n","t">>)}

Unions ==
  {UnionOf(args) : args \in {s \in SeqsUpTo(UnionMembers, MaxUnion) :
                               Len(s) >= 2 /\ IsInjective(s)}}

S_int_or_None == Str(<<"i","n","t"," ","|"," ","N","o","n","e">>)
S_Optional_str == Str(<<"O","p","t","i","o","n","a","l","[","s","t","r","]">>)
S_Union_int_str == Str(<<"U","n","i","o","n","[","i","n","t",","," ","s","t","r","]">>)

StrAnnotations ==
  {Str(s) : s \in
     { <<"i","n","t">>, <<"I","N","T">>, <<"I","n","t">>,
       <<"s","t","r">>, <<"S","T","R">>, <<"S","t","r">>,
       <<"f","l","o","a","t">>, <<"F","L","O","A","T">>, <<"F","l","o","a","t">>,
       <<"b","o","o","l">>, <<"B","O","O","L">>, <<"B","o","o","l">>,
       <<"N","o","n","e">>, <<"n","o","n","e">>, <<"N","O","N","E">>,
       <<"l","i","s","t">>, <<"L","i","s","t">>, <<"D","i","c","t">>,
       <<"S","e","q","u","e","n","c","e">>, <<"A","n","y">>, <<"F","o","o">> }}
  \cup {S_int_or_None, S_Optional_str, S_Union_int_str}

Annotations ==
  {T_int, T_str, T_float, T_bool, T_NoneType, T_list, T_tuple, T_set, T_dict, T_Any,
   T_Foo, T_Int, NoneValue, ForwardRef(<<"i","n","t">>),
   A_List, A_ListInt, A_DictStrInt, A_SequenceInt, A_Mapping, A_DequeInt,
   A_Callable, A_Literal}
  \cup StrAnnotations \cup Unions

\* Docstrings: up to MaxLines lines, each one of LineShapes, joined by "\n";
\* also the absent docstring and the empty one.
LineShapes ==
  { <<"Args:">>,
    <<"Returns:">>,
    <<"w">>,
    <<" ", "a", "(", "w", ")", ":", " ", "v">>,
    <<"a", " ", "w">>,
    <<"a", ":", " ">>,
    <<"b", ":", "w">>,
    <<"a", ":", "w", " ", "Returns:", "v">> }

Doc(text) == [none |-> FALSE, text |-> text]
NoDoc == [none |-> TRUE, text |-> <<>>]

DocStrings ==
  {NoDoc} \cup {Doc(join("\n", ls)) : ls \in SeqsUpTo(LineShapes, MaxLines)}

Param(name, type) == [name |-> name, type |-> type]

Func(name, doc, annotations) == [name |-> name, doc |-> doc, annotations |-> annotations]

\* The callables compiled are every docstring with each of DocAnnotations, and
\* GoodDoc with every annotation list.
DocAnnotations ==
  { <<>>,
    <<Param("a", T_int)>>,
    <<Param("a", T_int), Param("b", Optional(T_str)), Param("return", T_int)>>,
    <<Param("b", T_Foo), Param("a", T_int)>> }

\* A docstring describing a, b and c, tried with every annotation list of up to
\* MaxParams parameters and every return annotation.
GoodDoc ==
  Doc(join("\n", << <<"w">>, <<"Args:">>, <<" ", "a", ":", " ", "w">>,
                    <<" ", "b", " ", "(", "w", ")", ":", " ", "v">>,
                    <<" ", "c", ":", " ", "w", " ", "v">>,
                    <<"Returns:">>, <<" ", "w">> >>))

ParamNames == {"a", "b", "c"}

ParamTypes ==
  {T_int, Optional(T_int), UnionOf(<<T_int, T_str>>),
   UnionOf(<<T_str, T_NoneType, T_int>>), T_Foo}

ParamLists ==
  {ps \in SeqsUpTo([name : ParamNames, type : ParamTypes], MaxParams) :
     \A i, j \in DOMAIN ps : ps[i].name = ps[j].name => i = j}

\* The return slot comes last in __annotations__.
ReturnSlots ==
  {<<>>} \cup {<<Param("return", t)>> :
                 t \in {NoneValue, T_int, T_NoneType, UnionOf(<<T_int, T_str>>),
                        Optional(T_str), T_Foo}}

\* Tool lists: callables that compile, a callable that does not, raw descriptor
\* data the validator accepts and raw data it rejects.
F_add == Func("add", GoodDoc, <<Param("a", T_int), Param("b", Optional(T_str))>>)
F_get == Func("get", GoodDoc, <<Param("c", T_str), Param("return", T_int)>>)
F_bad == Func("bad", NoDoc, <<Param("a", T_int)>>)

D_ok ==
  [type |-> "function", name |-> "raw", description |-> <<"w">>,
   parameters |-> [type |-> "object", properties |-> <<>>, required |-> <<>>],
   return_type |-> NullResult]
D_bad == [D_ok EXCEPT !.type = "other"]

Callable(f) == [callable |-> TRUE, f |-> f, data |-> NoTool]
Data(d) == [callable |-> FALSE, f |-> Func("", NoDoc, <<>>), data |-> d]

ToolItems == {Callable(F_add), Callable(F_get), Callable(F_bad), Data(D_ok), Data(D_bad)}

NoTools == [none |-> TRUE, items |-> <<>>]

ToolLists == {NoTools} \cup {[none |-> FALSE, items |-> s] : s \in SeqsUpTo(ToolItems, MaxTools)}

(***************************************************************************)
(* The state machine: one call at a time, of any of the four functions.    *)
(***************************************************************************)
NoFunc == Func("", NoDoc, <<>>)
NoProcessed == [exc |-> "", at |-> 0, value |-> <<>>]

Init ==
  /\ pc = "idle"
  /\ op = ""
  /\ in_type = NoneValue
  /\ in_func = NoFunc
  /\ in_tools = NoTools
  /\ out_type = NullResult
  /\ out_optional = FALSE
  /\ out_tool = Returned(NoTool)
  /\ out_tools = NoProcessed

GetJsonType ==
  /\ pc = "idle"
  /\ \E t \in Annotations :
       /\ in_type' = t
       /\ out_type' = _get_json_type(t)
  /\ pc' = "done"
  /\ op' = "_get_json_type"
  /\ UNCHANGED <<in_func, in_tools, out_optional, out_tool, out_tools>>

IsOptionalType ==
  /\ pc = "idle"
  /\ \E t \in Annotations :
       /\ in_type' = t
       /\ out_optional' = _is_optional_type(t)
  /\ pc' = "done"
  /\ op' = "_is_optional_type"
  /\ UNCHANGED <<in_func, in_tools, out_type, out_tool, out_tools>>

ConvertFunctionToTool ==
  /\ pc = "idle"
  /\ \/ \E d \in DocStrings, an \in DocAnnotations :
            /\ in_func' = Func("f", d, an)
            /\ out_tool' = convert_function_to_tool(Func("f", d, an))
     \/ \E ps \in ParamLists, r \in ReturnSlots :
            /\ in_func' = Func("f", GoodDoc, ps \o r)
            /\ out_tool' = convert_function_to_tool(Func("f", GoodDoc, ps \o r))
  /\ pc' = "done"
  /\ op' = "convert_function_to_tool"
  /\ UNCHANGED <<in_type, in_tools, out_type, out_optional, out_tools>>

ProcessTools ==
  /\ pc = "idle"
  /\ \E t \in ToolLists :
       /\ in_tools' = t
       /\ out_tools' = process_tools(t)
  /\ pc' = "done"
  /\ op' = "process_tools"
  /\ UNCHANGED <<in_type, in_func, out_type, out_optional, out_tool>>

\* The call is over; the next one starts from nothing, as the functions keep
\* no state between calls.
Return ==
  /\ pc = "done"
  /\ pc' = "idle"
  /\ op' = ""
  /\ in_type' = NoneValue
  /\ in_func' = NoFunc
  /\ in_tools' = NoTools
  /\ out_type' = NullResult
  /\ out_optional' = FALSE
  /\ out_tool' = Returned(NoTool)
  /\ out_tools' = NoProcessed

Next ==
  \/ GetJsonType
  \/ IsOptionalType
  \/ ConvertFunctionToTool
  \/ ProcessTools
  \/ Return

Spec == Init /\ [][Next]_vars

(***************************************************************************)
(* The error taxonomy: every error of the code but the validator's is a    *)
(* ValueError, told apart by its message.                                  *)
(***************************************************************************)
MissingDocumentationError(r) ==
  r.exc = "ValueError" /\ r.msg = "must have a docstring in Google format"

MissingSectionError(r) ==
  r.exc = "ValueError" /\ r.msg = "docstring must have an Args section in Google format"

MissingParameterDescriptionError(r) ==
  r.exc = "ValueError" /\ r.msg = "must have a description in the Args section"

UnmappableTypeError(r) ==
  r.exc = "ValueError" /\ r.msg = "Could not map Python type"

ValidationError(r) == r.exc = "ValidationError"

(***************************************************************************)
(* What the properties below speak of, stated apart from the code's own    *)
(* loop: the parameters of a callable, the line that describes a parameter *)
(* and whether a parameter compiles.                                       *)
(***************************************************************************)
Compiled == op = "convert_function_to_tool"

Succeeded == Compiled /\ out_tool.exc = ""

DeclaredParams(f) == SelectSeq(f.annotations, LAMBDA p : p.name # "return")

Names(ps) == [i \in DOMAIN ps |-> ps[i].name]

HasMarker(f) == ~f.doc.none /\ contains(f.doc.text, "Args:")

\* The trimmed line begins with '<name>:', '<name> ' or '<name>('.
ParamLine(line, name) == Len(line) >= 2 /\ line[1] = name /\ line[2] \in {":", " ", "("}

Described(lines, name) == \E i \in DOMAIN lines : ParamLine(strip(lines[i]), name)

FirstParamLine(lines, name) ==
  strip(lines[CHOOSE i \in DOMAIN lines :
                /\ ParamLine(strip(lines[i]), name)
                /\ \A j \in 1..(i-1) : ~ParamLine(strip(lines[j]), name)])

\* The trimmed text after the first colon of a line that has one.
AfterColon(line) == strip(SubSeq(line, find(line, ":") + 1, Len(line)))

SectionLines(f) == split(args_section_of(f.doc.text), "\n")

BlankDescription(lines, name) ==
  /\ Described(lines, name)
  /\ contains(FirstParamLine(lines, name), ":")
  /\ AfterColon(FirstParamLine(lines, name)) = <<>>

Compiles(lines, p) ==
  /\ Described(lines, p.name)
  /\ contains(FirstParamLine(lines, p.name), ":")
  /\ AfterColon(FirstParamLine(lines, p.name)) # <<>>
  /\ _get_json_type(p.type).tag # "ValueError"

EarlierCompile(lines, ps, i) == \A j \in 1..(i-1) : Compiles(lines, ps[j])

(***************************************************************************)
(* C1.  After every successful compile the keys of parameters.properties   *)
(* are the declared parameters other than the return slot, in declaration  *)
(* order, and parameters.required is the subsequence of those whose        *)
(* annotation is not optional, in the same order and without duplicates.   *)
(***************************************************************************)
C1_PropertiesAndRequired ==
  Succeeded =>
    LET params == DeclaredParams(in_func)
        parameters == out_tool.tool_dict.parameters
        mandatory == SelectSeq(params, LAMBDA p : ~_is_optional_type(p.type))
    IN /\ Names(parameters.properties) = Names(params)
       /\ parameters.required = Names(mandatory)
       /\ IsInjective(parameters.required)

\* A compile of an optional parameter followed by a required one, with a
\* return slot: required holds the second key only.
C1_Witness ==
  /\ Succeeded
  /\ has_return(in_func.annotations)
  /\ Len(out_tool.tool_dict.parameters.properties) = 2
  /\ _is_optional_type(in_func.annotations[1].type)
  /\ out_tool.tool_dict.parameters.required = <<in_func.annotations[2].name>>

(***************************************************************************)
(* C2.  Compile returns no descriptor and fails: for want of documentation *)
(* when the docstring is absent or empty; for want of the section when the *)
(* docstring is not empty and has no 'Args:' marker, whatever the          *)
(* parameters; for want of a parameter description, naming the parameter,  *)
(* when the marker is there and the parameter has no matching line in the  *)
(* section while every earlier parameter compiled.                         *)
(***************************************************************************)
C2_MissingErrors ==
  Compiled =>
    LET f == in_func
        r == out_tool
        params == DeclaredParams(f)
    IN /\ (f.doc.none \/ f.doc.text = <<>>) =>
            MissingDocumentationError(r) /\ r.who = f.name /\ r.tool_dict = NoTool
       /\ (~f.doc.none /\ f.doc.text # <<>> /\ ~contains(f.doc.text, "Args:")) =>
            MissingSectionError(r) /\ r.who = f.name /\ r.tool_dict = NoTool
       /\ HasMarker(f) =>
            \A i \in DOMAIN params :
              (/\ ~Described(SectionLines(f), params[i].name)
               /\ EarlierCompile(SectionLines(f), params, i)) =>
                /\ MissingParameterDescriptionError(r)
                /\ r.who = params[i].name
                /\ r.tool_dict = NoTool

\* The second parameter is the one without a line, the first one compiled.
C2_Witness ==
  /\ Compiled
  /\ HasMarker(in_func)
  /\ Len(DeclaredParams(in_func)) >= 2
  /\ Compiles(SectionLines(in_func), DeclaredParams(in_func)[1])
  /\ ~Described(SectionLines(in_func), DeclaredParams(in_func)[2].name)
  /\ MissingParameterDescriptionError(out_tool)
  /\ out_tool.who = DeclaredParams(in_func)[2].name

(***************************************************************************)
(* C3.  int, str, float, bool and None resolve to integer, string, number, *)
(* boolean and null, given as the runtime type or as the type's name in    *)
(* any letter case.                                                        *)
(***************************************************************************)
Primitives ==
  { [type |-> T_int, name |-> <<"i","n","t">>, kind |-> "integer"],
    [type |-> T_str, name |-> <<"s","t","r">>, kind |-> "string"],
    [type |-> T_float, name |-> <<"f","l","o","a","t">>, kind |-> "number"],
    [type |-> T_bool, name |-> <<"b","o","o","l">>, kind |-> "boolean"],
    [type |-> T_NoneType, name |-> <<"N","o","n","e">>, kind |-> "null"] }

C3_PrimitivesInAnyForm ==
  op = "_get_json_type" =>
    \A p \in Primitives :
      (\/ in_type = p.type
       \/ in_type.kind = "str" /\ lower(in_type.chars) = lower(p.name))
      => out_type = JsonStr(p.kind)

(***************************************************************************)
(* C4.  A runtime union is optional iff a member is the absence marker,    *)
(* and nothing else is optional; it resolves, the absence members dropped, *)
(* to what the one remaining member resolves to, to the list of what the   *)
(* remaining members resolve to, in their order, or to null when none      *)
(* remains.                                                                *)
(***************************************************************************)
C4_UnionResolution ==
  LET rest == SelectSeq(in_type.args, LAMBDA m : m # T_NoneType)
      each == [i \in DOMAIN rest |-> _get_json_type(rest[i])]
  IN /\ op = "_is_optional_type" =>
          out_optional = (/\ in_type.kind = "union"
                          /\ \E i \in DOMAIN in_type.args : in_type.args[i] = T_NoneType)
     /\ (op = "_get_json_type" /\ in_type.kind = "union") =>
          /\ Len(rest) = 0 => out_type = JsonStr("null")
          /\ Len(rest) = 1 => out_type = each[1]
          /\ (Len(rest) >= 2 /\ \A i \in DOMAIN each : each[i].tag = "str") =>
               out_type = JsonList([i \in DOMAIN each |-> each[i].types[1]])
          /\ (Len(rest) >= 2 /\ \E i \in DOMAIN each : each[i].tag = "ValueError") =>
               out_type.tag = "ValueError"

\* A union of three members, the absence marker between the other two, has
\* resolved to the list of the two.
C4_Witness ==
  /\ op = "_get_json_type"
  /\ in_type.kind = "union"
  /\ Len(in_type.args) = 3
  /\ in_type.args[2] = T_NoneType
  /\ out_type.tag = "list"
  /\ Len(out_type.types) = 2

(***************************************************************************)
(* C5.  normalize returns the empty sequence for an absent or empty input; *)
(* when every item succeeds it returns one descriptor per item, the i-th   *)
(* made from the i-th item, by compile when the item is invocable and by   *)
(* validation when it is not.                                              *)
(***************************************************************************)
C5_OnePerItemInOrder ==
  op = "process_tools" =>
    LET items == in_tools.items
        one(i) == IF items[i].callable
                  THEN convert_function_to_tool(items[i].f)
                  ELSE Tool_model_validate(items[i].data)
    IN /\ (in_tools.none \/ items = <<>>) =>
            out_tools.exc = "" /\ out_tools.value = <<>>
       /\ (\A i \in DOMAIN items : one(i).exc = "") =>
            /\ out_tools.exc = ""
            /\ Len(out_tools.value) = Len(items)
            /\ \A i \in DOMAIN items : out_tools.value[i] = one(i).tool_dict

\* A callable, then raw data, then another callable: three descriptors.
C5_Witness ==
  /\ op = "process_tools"
  /\ out_tools.exc = ""
  /\ Len(in_tools.items) = 3
  /\ in_tools.items[1].callable
  /\ ~in_tools.items[2].callable
  /\ in_tools.items[3].callable
  /\ in_tools.items[1] # in_tools.items[3]
  /\ Len(out_tools.value) = 3

(***************************************************************************)
(* C6.  Whatever the docstring and the annotations, compile returns a      *)
(* validated descriptor or fails with an error of the taxonomy that names  *)
(* the callable, the parameter or the annotation; no other failure.        *)
(***************************************************************************)
C6_OnlyTaxonomyErrors ==
  Compiled =>
    \/ out_tool.exc = ""
    \/ MissingDocumentationError(out_tool) /\ out_tool.who = in_func.name
    \/ MissingSectionError(out_tool) /\ out_tool.who = in_func.name
    \/ /\ MissingParameterDescriptionError(out_tool)
       /\ out_tool.who \in Range(Names(DeclaredParams(in_func)))
    \/ /\ UnmappableTypeError(out_tool)
       /\ _get_json_type(out_tool.bad).tag = "ValueError"
    \/ ValidationError(out_tool)

(***************************************************************************)
(* C7.  Every property of a returned descriptor has a non-empty            *)
(* description; a parameter whose first matching line has nothing but      *)
(* whitespace after its first colon makes compile fail for want of a       *)
(* parameter description.  As stated, of every such parameter:             *)
(***************************************************************************)
C7_BlankDescriptionAlwaysFails ==
  /\ Succeeded =>
       \A i \in DOMAIN out_tool.tool_dict.parameters.properties :
         out_tool.tool_dict.parameters.properties[i].description # <<>>
  /\ (Compiled /\ HasMarker(in_func)) =>
       \A i \in DOMAIN DeclaredParams(in_func) :
         BlankDescription(SectionLines(in_func), DeclaredParams(in_func)[i].name) =>
           MissingParameterDescriptionError(out_tool)

(***************************************************************************)
(* C7, amended.  Every property of a returned descriptor has a non-empty   *)
(* description; a parameter whose first matching line has nothing but      *)
(* whitespace after its first colon makes compile fail for want of that    *)
(* parameter's description, provided every earlier parameter compiled.     *)
(***************************************************************************)
C7_NoEmptyDescription ==
  /\ Succeeded =>
       \A i \in DOMAIN out_tool.tool_dict.parameters.properties :
         out_tool.tool_dict.parameters.properties[i].description # <<>>
  /\ (Compiled /\ HasMarker(in_func)) =>
       \A i \in DOMAIN DeclaredParams(in_func) :
         (/\ BlankDescription(SectionLines(in_func), DeclaredParams(in_func)[i].name)
          /\ EarlierCompile(SectionLines(in_func), DeclaredParams(in_func), i)) =>
           /\ MissingParameterDescriptionError(out_tool)
           /\ out_tool.who = DeclaredParams(in_func)[i].name
           /\ out_tool.tool_dict = NoTool

\* The first line of the parameter is blank after its colon and a later line
\* of the same parameter is not: the compile failed naming the parameter.
C7_Witness ==
  /\ Compiled
  /\ HasMarker(in_func)
  /\ Len(DeclaredParams(in_func)) >= 1
  /\ BlankDescription(SectionLines(in_func), DeclaredParams(in_func)[1].name)
  /\ \E i \in DOMAIN SectionLines(in_func) :
       LET line == strip(SectionLines(in_func)[i])
       IN /\ ParamLine(line, DeclaredParams(in_func)[1].name)
          /\ contains(line, ":")
          /\ AfterColon(line) # <<>>
  /\ MissingParameterDescriptionError(out_tool)
  /\ out_tool.who = DeclaredParams(in_func)[1].name

(***************************************************************************)
(* C8.  In every successful compile the parameter region is the lines      *)
(* after the first line that starts with 'Args:', up to the next line that *)
(* starts with 'Returns:' or to the end, and each parameter's description  *)
(* is the trimmed text after the first colon of the first line of the      *)
(* region that begins with the parameter's name in one of the three        *)
(* formats; no line is cut short.                                          *)
(***************************************************************************)
RegionLines(text) ==
  LET ls == split(text, "\n")
      isArgs(i) == startswith(strip(ls[i]), <<"Args:">>)
      isReturns(i) == startswith(strip(ls[i]), <<"Returns:">>)
  IN IF ~\E i \in DOMAIN ls : isArgs(i) THEN <<>>
     ELSE LET first == CHOOSE i \in DOMAIN ls : isArgs(i) /\ \A j \in 1..(i-1) : ~isArgs(j)
              ends == {k \in (first+1)..Len(ls) : isReturns(k)}
              last == IF ends = {} THEN Len(ls)
                      ELSE (CHOOSE k \in ends : \A m \in ends : k <= m) - 1
          IN SubSeq(ls, first + 1, last)

C8_RegionByLines ==
  Succeeded =>
    LET region == RegionLines(in_func.doc.text)
        properties == out_tool.tool_dict.parameters.properties
    IN \A i \in DOMAIN properties :
         /\ Described(region, properties[i].name)
         /\ contains(FirstParamLine(region, properties[i].name), ":")
         /\ properties[i].description = AfterColon(FirstParamLine(region, properties[i].name))

(***************************************************************************)
(* C9.  return_type is null when there is no return annotation or it is    *)
(* None, and what the return annotation resolves to otherwise; in every    *)
(* assembled descriptor it is null or one kind, never a list; a return     *)
(* annotation is not what fails a compile that has a faulty parameter.     *)
(***************************************************************************)
Assembled == Compiled /\ out_tool.tool_dict # NoTool

C9_ReturnKind ==
  LET an == in_func.annotations
      rt == out_tool.tool_dict.return_type
  IN /\ Assembled =>
          /\ (~has_return(an) \/ return_annotation(an) = NoneValue) => rt = NullResult
          /\ (has_return(an) /\ return_annotation(an) # NoneValue) =>
               rt = _get_json_type(return_annotation(an))
          /\ rt.tag \in {"None", "str"}
     /\ (/\ Compiled
         /\ HasMarker(in_func)
         /\ \E i \in DOMAIN DeclaredParams(in_func) :
              ~Compiles(SectionLines(in_func), DeclaredParams(in_func)[i])) =>
          /\ out_tool.exc # ""
          /\ ~(UnmappableTypeError(out_tool)
               /\ has_return(an)
               /\ out_tool.bad = return_annotation(an)
               /\ \A i \in DOMAIN DeclaredParams(in_func) :
                    DeclaredParams(in_func)[i].type # out_tool.bad)

(***************************************************************************)
(* C10.  A union written as a string is handled like the runtime union it  *)
(* spells: optional iff a member denotes absence, and resolved to what the *)
(* runtime union resolves to.                                              *)
(***************************************************************************)
StringUnions ==
  { [text |-> S_int_or_None, union |-> UnionOf(<<T_int, T_NoneType>>)],
    [text |-> S_Optional_str, union |-> UnionOf(<<T_str, T_NoneType>>)],
    [text |-> S_Union_int_str, union |-> UnionOf(<<T_int, T_str>>)] }

C10_StringUnions ==
  \A u \in StringUnions :
    /\ (op = "_get_json_type" /\ in_type = u.text) => out_type = _get_json_type(u.union)
    /\ (op = "_is_optional_type" /\ in_type = u.text) =>
         out_optional = _is_optional_type(u.union)

====
